---- MODULE Spec2Model ----
(***************************************************************************)
(* Subscription lifecycle and notification dispatch of the pulse           *)
(* repository.                                                             *)
(*                                                                         *)
(* Web push side (pulse-notifications): the subscription manager Lambda    *)
(* (handleSubscription, handleUnsubscription, generateSubscriptionId) and  *)
(* the web push sender Lambda (handleNotificationSend and its helpers)     *)
(* over the DynamoDB table `subscriptions`, keyed (user_id,                *)
(* subscription_id).                                                       *)
(*                                                                         *)
(* Device token side (pulse-gen-functions): the notification handler, the  *)
(* NotificationService and the SNSService over the DynamoDB table          *)
(* `device_tokens`, keyed device_id, and the endpoints of the SNS platform *)
(* application.                                                            *)
(*                                                                         *)
(* The two stacks share no state; a behaviour follows one of them.         *)
(***************************************************************************)
EXTENDS Integers, Sequences, FiniteSets, TLC

VARIABLES
    stack,           \* the stack the behaviour follows
    subscriptions,   \* items of the DynamoDB table aws_dynamodb_table.subscriptions
    sender,          \* one record per running web push sender invocation
    unsub,           \* the running handleUnsubscription invocation
    sub,             \* the running handleSubscription invocation
    deviceTokens,    \* items of the DynamoDB table aws_dynamodb_table.device_tokens
    endpoints,       \* endpoints of the SNS platform application
    svc              \* the running notificationHandler invocation

\* what the web push stack leaves alone, and what the device token stack does
genVars == <<stack, deviceTokens, endpoints, svc>>
webVars == <<stack, subscriptions, sender, unsub, sub>>
vars == <<stack, subscriptions, sender, unsub, sub, deviceTokens, endpoints, svc>>

----------------------------------------------------------------------------
(* Bounds of the model *)

MaxFailureCount == 1   \* failure_count is explored up to this value
MaxItems == 2          \* number of items the subscriptions table may hold
MaxDevices == 2        \* number of items the device_tokens table may hold

Min(a, b) == IF a < b THEN a ELSE b

----------------------------------------------------------------------------
(* Values *)

Users == {"u1", "u2"}
NoUser == ""                 \* a request body without user_id (falsy)
Senders == {"s1"}            \* invocations of the sender Lambda

Absent == -2                 \* numeric attribute not present on the item
Null == "null"               \* last_notification_sent stored as null
Timestamp == "timestamp"     \* new Date().toISOString()
NoAttribute == "absent"      \* string attribute not present on the item

\* n copies of character c
Rep(c, n) == [i \in 1..n |-> c]

\* Push-service endpoints.  An endpoint is a string, here the number of a
\* sample; ParseUrl gives what new URL(endpoint) makes of it: the origin and
\* the parts of url.pathname.split('/') (the first part is always the empty
\* string).  Characters are naturals.
NoEndpoint == 0              \* subscription.endpoint missing or empty
UrlList == <<
    \* 1: https://fcm.googleapis.com/fcm/send/<12 chars>
    [kind |-> "url", origin |-> 1, pathname |-> << <<>>, <<1, 2, 3>>, <<4, 5>>, Rep(7, 12) >>],
    \* 2: https://updates.push.services.mozilla.com/<3 chars>  (short last part)
    [kind |-> "url", origin |-> 2, pathname |-> << <<>>, Rep(8, 3) >>],
    \* 3: another origin, same last path part as endpoint 1
    [kind |-> "url", origin |-> 3, pathname |-> << <<>>, <<6>>, Rep(7, 12) >>],
    \* 4, 5: two endpoints whose last parts share their first 32 characters
    [kind |-> "url", origin |-> 1, pathname |-> << <<>>, Rep(9, 32) \o <<1>> >>],
    [kind |-> "url", origin |-> 1, pathname |-> << <<>>, Rep(9, 32) \o <<2>> >>],
    \* 6: trailing slash: the last part is empty, the one before it is used
    [kind |-> "url", origin |-> 1, pathname |-> << <<>>, Rep(5, 11), <<>> >>],
    \* 7: a string that new URL() rejects (it throws)
    [kind |-> "text", origin |-> 4, pathname |-> <<>>]
>>
AllEndpoints == 1..Len(UrlList)
ParseUrl(endpoint) == UrlList[endpoint]

\* crypto.createHash('sha256').update(endpoint).digest('hex').substring(0, 16):
\* 16 characters determined by the endpoint, taken collision free on the samples.
Sha256Hex16(endpoint) == Rep(100 + endpoint, 16)

HashThreshold == 10     \* uniquePart.length < 10 falls back to the hash
IdLength == 32          \* uniquePart.substring(0, 32)

\* An id drawn anew at each registration
generateSubscriptionIdPerCall(endpoint) == Rep(200 + Cardinality(subscriptions), 16)

generateSubscriptionId(endpoint) ==
    LET url == ParseUrl(endpoint) IN
    IF url.kind # "url"
    THEN Sha256Hex16(endpoint)
    ELSE LET pathParts == url.pathname
             n == Len(pathParts)
             uniquePart == IF pathParts[n] # <<>> THEN pathParts[n] ELSE pathParts[n - 1]
         IN IF uniquePart = <<>> \/ Len(uniquePart) < HashThreshold
            THEN Sha256Hex16(endpoint)
            ELSE SubSeq(uniquePart, 1, Min(IdLength, Len(uniquePart)))

\* Web push subscription objects a client may post.
KeyMaterial == "key"
NoSubscription == [endpoint |-> NoEndpoint, keys |-> [p256dh |-> "", auth |-> ""]]
WebPushSubscription(endpoint) ==
    [endpoint |-> endpoint, keys |-> [p256dh |-> KeyMaterial, auth |-> KeyMaterial]]
InvalidSubscriptions ==
    { NoSubscription,
      [endpoint |-> 1, keys |-> [p256dh |-> KeyMaterial, auth |-> ""]],
      [endpoint |-> 1, keys |-> [p256dh |-> "", auth |-> KeyMaterial]] }

----------------------------------------------------------------------------
(* The DynamoDB document client, on a table given as a set of items *)

ItemKey(item) == <<item.user_id, item.subscription_id>>

HasItem(table, userId, subscriptionId) ==
    \E it \in table : ItemKey(it) = <<userId, subscriptionId>>

GetItem(table, userId, subscriptionId) ==
    CHOOSE it \in table : ItemKey(it) = <<userId, subscriptionId>>

\* put: replaces the item with the same key
DynamoPut(table, item) ==
    {it \in table : ItemKey(it) # ItemKey(item)} \cup {item}

\* delete by key; deleting a missing key succeeds and changes nothing
DynamoDelete(table, userId, subscriptionId) ==
    {it \in table : ItemKey(it) # <<userId, subscriptionId>>}

\* The items of a set in the order in which the store returns them
RECURSIVE SetToSeq(_)
SetToSeq(S) ==
    IF S = {} THEN <<>>
    ELSE LET x == CHOOSE y \in S : TRUE IN <<x>> \o SetToSeq(S \ {x})

\* One Query or Scan call evaluates at most 1 MB of items and returns those of
\* them that pass the filter, with a LastEvaluatedKey for the rest.  PageLimit
\* is the number of items in 1 MB.
PageLimit == 3

\* The items one call evaluates: the first page, in the order of the store
FirstPage(items) ==
    LET seq == SetToSeq(items)
    IN {seq[k] : k \in 1..Min(PageLimit, Len(seq))}

\* a scan in place of the query
DynamoScan(table, userId) == table

\* a single query on the partition key
DynamoQuery(table, userId) == FirstPage({it \in table : it.user_id = userId})

\* The item an update starts from: the stored item, or, when the key is
\* missing, a new item that has only its key attributes (UpdateItem upserts).
UpdateBase(table, userId, subscriptionId) ==
    IF HasItem(table, userId, subscriptionId)
    THEN GetItem(table, userId, subscriptionId)
    ELSE [user_id |-> userId, subscription_id |-> subscriptionId,
          subscription |-> NoSubscription, status |-> NoAttribute,
          failure_count |-> Absent, last_notification_sent |-> NoAttribute]

----------------------------------------------------------------------------
(* Records of the running invocations *)

NoResponse ==
    [statusCode |-> 0, message |-> "", sent_count |-> Absent, failed_count |-> Absent,
     total_subscriptions |-> Absent, successful_deliveries |-> <<>>,
     failed_deliveries |-> <<>>]

\* body: the request; subscriptions: the resolved items; tstate: where each
\* per-target promise stands; answers: what the push service answered each
\* target (0: not yet); successful, failed: the two result lists; fstate: where
\* the tracking of each failed entry stands.
IdleSender ==
    [pc |-> "idle", body |-> [message |-> "", user_id |-> NoUser],
     subscriptions |-> <<>>, tstate |-> <<>>, answers |-> <<>>,
     successful |-> <<>>, failed |-> <<>>, fstate |-> <<>>, response |-> NoResponse]

IdleUnsub ==
    [pc |-> "idle", user_id |-> NoUser, items |-> <<>>, dstate |-> <<>>,
     response |-> [statusCode |-> 0, deleted_subscriptions |-> Absent]]

NoSubResponse == [statusCode |-> 0, user_id |-> NoUser, subscription_id |-> <<>>]

\* replaced: whether the put found an item for the same owner and endpoint;
\* reactivated: whether the item it found was not active
IdleSub == [pc |-> "idle", body |-> [user_id |-> NoUser, subscription |-> NoSubscription],
            replaced |-> FALSE, reactivated |-> FALSE, response |-> NoSubResponse]

\* Outcomes of webpush.sendNotification: it resolves with a 2xx status, or
\* rejects with an error carrying the push service's status code, or with a
\* network error that has no status code.
Created == 201
Gone == 410
TooManyRequests == 429
SendSuccess == {Created}
SendFailure == {Gone, TooManyRequests}

----------------------------------------------------------------------------
(* Subscription manager: POST /subscriptions *)

\* The item handleSubscription writes
SubscriptionItem(userId, subscription) ==
    [user_id |-> userId,
     subscription_id |-> generateSubscriptionId(subscription.endpoint),
     subscription |-> subscription,
     status |-> "active",
     failure_count |-> 0,
     last_notification_sent |-> Null]

\* A validation that looks at user_id and the endpoint only
SubscriptionIsValidWithoutKeys(body) ==
    /\ body.user_id # NoUser
    /\ body.subscription.endpoint # NoEndpoint

\* The three validations of handleSubscription
SubscriptionIsValid(body) ==
    /\ body.user_id # NoUser
    /\ body.subscription.endpoint # NoEndpoint
    /\ body.subscription.keys.p256dh # ""
    /\ body.subscription.keys.auth # ""

handleSubscription(body, putOk) ==
    /\ sub.pc = "idle"
    /\ IF ~SubscriptionIsValid(body)
       THEN /\ sub' = [pc |-> "done", body |-> body, replaced |-> FALSE,
                       reactivated |-> FALSE,
                       response |-> [NoSubResponse EXCEPT !.statusCode = 400]]
            /\ UNCHANGED subscriptions
       ELSE LET item == SubscriptionItem(body.user_id, body.subscription) IN
            IF putOk
            THEN /\ subscriptions' = DynamoPut(subscriptions, item)
                 /\ sub' = [pc |-> "done", body |-> body,
                            replaced |-> \E it \in subscriptions :
                                            /\ it.user_id = item.user_id
                                            /\ it.subscription = item.subscription,
                            reactivated |-> \E it \in subscriptions :
                                            /\ ItemKey(it) = ItemKey(item)
                                            /\ it.status # "active",
                            response |-> [statusCode |-> 200, user_id |-> item.user_id,
                                          subscription_id |-> item.subscription_id]]
            ELSE /\ sub' = [pc |-> "done", body |-> body, replaced |-> FALSE,
                            reactivated |-> FALSE,
                            response |-> [NoSubResponse EXCEPT !.statusCode = 500]]
                 /\ UNCHANGED subscriptions
    /\ UNCHANGED <<sender, unsub, genVars>>

\* The invocation is over; the next POST request starts a new one.
subscriptionReturn ==
    /\ sub.pc = "done"
    /\ sub' = IdleSub
    /\ UNCHANGED <<subscriptions, sender, unsub, genVars>>

----------------------------------------------------------------------------
(* Subscription manager: DELETE /subscriptions *)

handleUnsubscription(body, queryOk) ==
    /\ unsub.pc = "idle"
    /\ unsub' =
         IF body.user_id = NoUser
         THEN [IdleUnsub EXCEPT !.pc = "done", !.response.statusCode = 400]
         ELSE IF ~queryOk
         THEN [IdleUnsub EXCEPT !.pc = "done", !.user_id = body.user_id,
                                !.response.statusCode = 500]
         ELSE LET found == SetToSeq({it.subscription_id :
                                       it \in DynamoQuery(subscriptions, body.user_id)})
              IN IF Len(found) = 0
                 THEN [IdleUnsub EXCEPT !.pc = "done", !.user_id = body.user_id,
                                        !.response.statusCode = 404]
                 ELSE [IdleUnsub EXCEPT !.pc = "deleting", !.user_id = body.user_id,
                                        !.items = found,
                                        !.dstate = [i \in 1..Len(found) |-> "pending"]]
    /\ UNCHANGED <<subscriptions, sender, sub, genVars>>

\* One of the deletePromises: dynamodb.delete of one item found by the query.
\* The deletes were all issued before the first await, so one that is still
\* in flight when Promise.all has rejected may yet be applied.
deleteSubscription(i, deleteOk) ==
    /\ unsub.pc \in {"deleting", "done"}
    /\ i \in 1..Len(unsub.items)
    /\ unsub.dstate[i] = "pending"
    /\ IF deleteOk
       THEN /\ subscriptions' = DynamoDelete(subscriptions, unsub.user_id, unsub.items[i])
            /\ unsub' = [unsub EXCEPT !.dstate[i] = "deleted"]
       ELSE /\ unsub' = [unsub EXCEPT !.dstate[i] = "failed"]
            /\ UNCHANGED subscriptions
    /\ UNCHANGED <<sender, sub, genVars>>

\* await Promise.all(deletePromises) and the response that follows it
unsubscriptionResponse ==
    /\ unsub.pc = "deleting"
    /\ LET n == Len(unsub.items) IN
       \/ /\ \A i \in 1..n : unsub.dstate[i] = "deleted"
          /\ unsub' = [unsub EXCEPT !.pc = "done",
                          !.response = [statusCode |-> 200, deleted_subscriptions |-> n]]
       \/ /\ \E i \in 1..n : unsub.dstate[i] = "failed"
          /\ unsub' = [unsub EXCEPT !.pc = "done", !.response.statusCode = 500]
    /\ UNCHANGED <<subscriptions, sender, sub, genVars>>

\* The invocation is over; the next DELETE request starts a new one.
unsubscriptionReturn ==
    /\ unsub.pc = "done"
    /\ unsub' = IdleUnsub
    /\ UNCHANGED <<subscriptions, sender, sub, genVars>>

----------------------------------------------------------------------------
(* Web push sender: POST /notifications *)

\* getActiveSubscriptions: one Query on the owner or one Scan, with the filter
\* on status applied to the items of the page; LastEvaluatedKey is not read.
getActiveSubscriptions(targetUserId) ==
    IF targetUserId # NoUser
    THEN {it \in DynamoQuery(subscriptions, targetUserId) : it.status = "active"}
    ELSE {it \in FirstPage(subscriptions) : it.status = "active"}

\* The result returned when no active subscription is found
NoActiveSubscriptionsNotFound ==
    [NoResponse EXCEPT !.statusCode = 404, !.message = "No active subscriptions found"]
NoActiveSubscriptions ==
    [NoResponse EXCEPT !.statusCode = 200, !.message = "No active subscriptions found",
                       !.sent_count = 0, !.failed_count = 0]

VapidFailed == "Failed to fetch VAPID configuration"
FetchFailed == "Failed to fetch subscriptions"

handleNotificationSend(s, body, vapidOk, queryOk) ==
    /\ sender[s].pc = "idle"
    /\ sender' = [sender EXCEPT ![s] =
         IF body.message = ""
         THEN [IdleSender EXCEPT !.pc = "done", !.body = body,
                                 !.response.statusCode = 400]
         ELSE IF ~vapidOk
         THEN [IdleSender EXCEPT !.pc = "done", !.body = body,
                                 !.response.statusCode = 500,
                                 !.response.message = VapidFailed]
         ELSE IF ~queryOk
         THEN [IdleSender EXCEPT !.pc = "done", !.body = body,
                                 !.response.statusCode = 500,
                                 !.response.message = FetchFailed]
         ELSE LET found == SetToSeq(getActiveSubscriptions(body.user_id))
              IN IF Len(found) = 0
                 THEN [IdleSender EXCEPT !.pc = "done", !.body = body,
                                         !.response = NoActiveSubscriptions]
                 ELSE [IdleSender EXCEPT !.pc = "sending", !.body = body,
                          !.subscriptions = found,
                          !.tstate = [i \in 1..Len(found) |-> "pending"],
                          !.answers = [i \in 1..Len(found) |-> 0]]]
    /\ UNCHANGED <<subscriptions, unsub, sub, genVars>>

\* sendNotificationsToSubscriptions without the catch: a rejected send
\* rejects Promise.all and the handler answers 500
sendNotificationUncaught(s, i, outcome) ==
    /\ sender[s].pc = "sending"
    /\ i \in 1..Len(sender[s].subscriptions)
    /\ sender[s].tstate[i] = "pending"
    /\ LET subscription == sender[s].subscriptions[i] IN
       sender' = [sender EXCEPT ![s] =
         IF outcome \in SendSuccess
         THEN [@ EXCEPT !.tstate[i] = "delivered",
                        !.answers[i] = outcome,
                        !.successful = Append(@, [user_id |-> subscription.user_id,
                                                  subscription_id |-> subscription.subscription_id,
                                                  status |-> "sent",
                                                  statusCode |-> outcome])]
         ELSE [@ EXCEPT !.pc = "done",
                        !.tstate[i] = "settled",
                        !.answers[i] = outcome,
                        !.response.statusCode = 500]]
    /\ UNCHANGED <<subscriptions, unsub, sub, genVars>>

\* sendNotificationsToSubscriptions, one target: webpush.sendNotification
\* settles with `outcome` and the target is pushed on successful or failed.
sendNotification(s, i, outcome) ==
    /\ sender[s].pc = "sending"
    /\ i \in 1..Len(sender[s].subscriptions)
    /\ sender[s].tstate[i] = "pending"
    /\ LET subscription == sender[s].subscriptions[i] IN
       sender' = [sender EXCEPT ![s] =
         IF outcome \in SendSuccess
         THEN [@ EXCEPT !.tstate[i] = "delivered",
                        !.answers[i] = outcome,
                        !.successful = Append(@, [user_id |-> subscription.user_id,
                                                  subscription_id |-> subscription.subscription_id,
                                                  status |-> "sent",
                                                  statusCode |-> outcome])]
         ELSE [@ EXCEPT !.tstate[i] = "settled",
                        !.answers[i] = outcome,
                        !.failed = Append(@, [user_id |-> subscription.user_id,
                                              subscription_id |-> subscription.subscription_id,
                                              error |-> "send failed",
                                              statusCode |-> outcome,
                                              subscription |-> subscription.subscription]),
                        !.fstate = Append(@, "pending")]]
    /\ UNCHANGED <<subscriptions, unsub, sub, genVars>>

\* updateLastNotificationSent that rethrows: the error of a failed write lands
\* in the catch around the send, which pushes the target on failed.
updateLastNotificationSentRethrows(s, i, writeOk) ==
    /\ sender[s].pc = "sending"
    /\ i \in 1..Len(sender[s].subscriptions)
    /\ sender[s].tstate[i] = "delivered"
    /\ LET t == sender[s].subscriptions[i]
           base == UpdateBase(subscriptions, t.user_id, t.subscription_id)
       IN IF writeOk
          THEN /\ subscriptions' =
                    DynamoPut(subscriptions, [base EXCEPT !.last_notification_sent = Timestamp])
               /\ sender' = [sender EXCEPT ![s].tstate[i] = "settled"]
          ELSE /\ subscriptions' = subscriptions
               /\ sender' = [sender EXCEPT
                     ![s].tstate[i] = "settled",
                     ![s].failed = Append(@, [user_id |-> t.user_id,
                                              subscription_id |-> t.subscription_id,
                                              error |-> "write failed",
                                              statusCode |-> 0,
                                              subscription |-> t.subscription]),
                     ![s].fstate = Append(@, "pending")]
    /\ UNCHANGED <<unsub, sub, genVars>>

\* updateLastNotificationSent that also clears the failure_count on a delivery
updateLastNotificationSentResets(s, i, writeOk) ==
    /\ sender[s].pc = "sending"
    /\ i \in 1..Len(sender[s].subscriptions)
    /\ sender[s].tstate[i] = "delivered"
    /\ LET t == sender[s].subscriptions[i]
           base == UpdateBase(subscriptions, t.user_id, t.subscription_id)
       IN subscriptions' =
               IF writeOk
               THEN DynamoPut(subscriptions, [base EXCEPT !.last_notification_sent = Timestamp,
                                                          !.failure_count = 0])
               ELSE subscriptions
    /\ sender' = [sender EXCEPT ![s].tstate[i] = "settled"]
    /\ UNCHANGED <<unsub, sub, genVars>>

\* updateLastNotificationSent: SET last_notification_sent = :timestamp.
\* A failed write is logged and swallowed.
updateLastNotificationSent(s, i, writeOk) ==
    /\ sender[s].pc = "sending"
    /\ i \in 1..Len(sender[s].subscriptions)
    /\ sender[s].tstate[i] = "delivered"
    /\ LET t == sender[s].subscriptions[i]
           base == UpdateBase(subscriptions, t.user_id, t.subscription_id)
       IN subscriptions' =
               IF writeOk
               THEN DynamoPut(subscriptions, [base EXCEPT !.last_notification_sent = Timestamp])
               ELSE subscriptions
    /\ sender' = [sender EXCEPT ![s].tstate[i] = "settled"]
    /\ UNCHANGED <<unsub, sub, genVars>>

\* await Promise.all(promises)
AllSettled(s) == \A i \in 1..Len(sender[s].tstate) : sender[s].tstate[i] = "settled"

MAX_FAILURES == 5

\* updateFailureCounts that retires at the MAX_FAILURES threshold
updateFailureCountsThreshold(s, j, writeOk) ==
    /\ sender[s].pc = "sending"
    /\ AllSettled(s)
    /\ j \in 1..Len(sender[s].failed)
    /\ sender[s].fstate[j] = "pending"
    /\ LET f == sender[s].failed[j]
           base == UpdateBase(subscriptions, f.user_id, f.subscription_id)
           accepted == writeOk /\ base.failure_count # Absent
       IN /\ subscriptions' =
               IF accepted
               THEN DynamoPut(subscriptions, [base EXCEPT !.failure_count = @ + 1])
               ELSE subscriptions
          /\ sender' = [sender EXCEPT ![s].fstate[j] =
                          IF accepted /\ base.failure_count + 1 >= MAX_FAILURES
                          THEN "counted" ELSE "done"]
    /\ UNCHANGED <<unsub, sub, genVars>>

\* updateFailureCounts that retires on 410 or once MAX_FAILURES is reached
updateFailureCountsAccumulated(s, j, writeOk) ==
    /\ sender[s].pc = "sending"
    /\ AllSettled(s)
    /\ j \in 1..Len(sender[s].failed)
    /\ sender[s].fstate[j] = "pending"
    /\ LET f == sender[s].failed[j]
           base == UpdateBase(subscriptions, f.user_id, f.subscription_id)
           accepted == writeOk /\ base.failure_count # Absent
       IN /\ subscriptions' =
               IF accepted
               THEN DynamoPut(subscriptions, [base EXCEPT !.failure_count = @ + 1])
               ELSE subscriptions
          /\ sender' = [sender EXCEPT ![s].fstate[j] =
                          IF accepted /\ (f.statusCode = Gone
                                          \/ base.failure_count + 1 >= MAX_FAILURES)
                          THEN "counted" ELSE "done"]
    /\ UNCHANGED <<unsub, sub, genVars>>

\* updateFailureCounts with :inc bound to the number of failed entries
updateFailureCountsBatch(s, j, writeOk) ==
    /\ sender[s].pc = "sending"
    /\ AllSettled(s)
    /\ j \in 1..Len(sender[s].failed)
    /\ sender[s].fstate[j] = "pending"
    /\ LET f == sender[s].failed[j]
           base == UpdateBase(subscriptions, f.user_id, f.subscription_id)
           accepted == writeOk /\ base.failure_count # Absent
       IN /\ subscriptions' =
               IF accepted
               THEN DynamoPut(subscriptions,
                              [base EXCEPT !.failure_count = @ + Len(sender[s].failed)])
               ELSE subscriptions
          /\ sender' = [sender EXCEPT ![s].fstate[j] =
                          IF accepted /\ f.statusCode = Gone THEN "counted" ELSE "done"]
    /\ UNCHANGED <<unsub, sub, genVars>>

\* updateFailureCounts as a read-modify-write in the Lambda: it adds one to
\* the failure_count the dispatch read when it resolved its targets and
\* writes the sum back
updateFailureCountsReadModifyWrite(s, j, writeOk) ==
    /\ sender[s].pc = "sending"
    /\ AllSettled(s)
    /\ j \in 1..Len(sender[s].failed)
    /\ sender[s].fstate[j] = "pending"
    /\ LET f == sender[s].failed[j]
           base == UpdateBase(subscriptions, f.user_id, f.subscription_id)
           read == CHOOSE t \in {sender[s].subscriptions[i] :
                                   i \in 1..Len(sender[s].subscriptions)} :
                       ItemKey(t) = ItemKey(f)
           accepted == writeOk /\ base.failure_count # Absent
       IN /\ subscriptions' =
               IF accepted
               THEN DynamoPut(subscriptions,
                              [base EXCEPT !.failure_count = read.failure_count + 1])
               ELSE subscriptions
          /\ sender' = [sender EXCEPT ![s].fstate[j] =
                          IF accepted /\ f.statusCode = Gone THEN "counted" ELSE "done"]
    /\ UNCHANGED <<unsub, sub, genVars>>

\* updateFailureCounts whose promise for an entry does not settle when the
\* write is rejected
updateFailureCountsUnsettled(s, j, writeOk) ==
    /\ sender[s].pc = "sending"
    /\ AllSettled(s)
    /\ j \in 1..Len(sender[s].failed)
    /\ sender[s].fstate[j] = "pending"
    /\ LET f == sender[s].failed[j]
           base == UpdateBase(subscriptions, f.user_id, f.subscription_id)
           accepted == writeOk /\ base.failure_count # Absent
       IN /\ subscriptions' =
               IF accepted
               THEN DynamoPut(subscriptions, [base EXCEPT !.failure_count = @ + 1])
               ELSE subscriptions
          /\ sender' = [sender EXCEPT ![s].fstate[j] =
                          IF ~accepted THEN "rejected"
                          ELSE IF f.statusCode = Gone THEN "counted" ELSE "done"]
    /\ UNCHANGED <<unsub, sub, genVars>>

\* updateFailureCounts, one failed entry: SET failure_count = failure_count + 1.
\* The store rejects the update when the item has no failure_count attribute;
\* a rejected or failed write is logged and the entry is done.
updateFailureCounts(s, j, writeOk) ==
    /\ sender[s].pc = "sending"
    /\ AllSettled(s)
    /\ j \in 1..Len(sender[s].failed)
    /\ sender[s].fstate[j] = "pending"
    /\ LET f == sender[s].failed[j]
           base == UpdateBase(subscriptions, f.user_id, f.subscription_id)
           accepted == writeOk /\ base.failure_count # Absent
       IN /\ subscriptions' =
               IF accepted
               THEN DynamoPut(subscriptions, [base EXCEPT !.failure_count = @ + 1])
               ELSE subscriptions
          /\ sender' = [sender EXCEPT ![s].fstate[j] =
                          IF accepted /\ f.statusCode = Gone THEN "counted" ELSE "done"]
    /\ UNCHANGED <<unsub, sub, genVars>>

\* deactivateSubscription that removes the record
deactivateSubscriptionDeletes(s, j, writeOk) ==
    /\ sender[s].pc = "sending"
    /\ j \in 1..Len(sender[s].failed)
    /\ sender[s].fstate[j] = "counted"
    /\ LET f == sender[s].failed[j]
       IN subscriptions' =
               IF writeOk
               THEN DynamoDelete(subscriptions, f.user_id, f.subscription_id)
               ELSE subscriptions
    /\ sender' = [sender EXCEPT ![s].fstate[j] = "done"]
    /\ UNCHANGED <<unsub, sub, genVars>>

\* deactivateSubscription: SET status = inactive.  A failed write is logged.
deactivateSubscription(s, j, writeOk) ==
    /\ sender[s].pc = "sending"
    /\ j \in 1..Len(sender[s].failed)
    /\ sender[s].fstate[j] = "counted"
    /\ LET f == sender[s].failed[j]
           base == UpdateBase(subscriptions, f.user_id, f.subscription_id)
       IN subscriptions' =
               IF writeOk
               THEN DynamoPut(subscriptions, [base EXCEPT !.status = "inactive"])
               ELSE subscriptions
    /\ sender' = [sender EXCEPT ![s].fstate[j] = "done"]
    /\ UNCHANGED <<unsub, sub, genVars>>

\* A response given once the sends have settled, updateFailureCounts not awaited
notificationResponseEarly(s) ==
    /\ sender[s].pc = "sending"
    /\ AllSettled(s)
    /\ sender' = [sender EXCEPT ![s].pc = "done", ![s].response =
         [statusCode |-> 200,
          message |-> "Notifications sent successfully",
          sent_count |-> Len(sender[s].successful),
          failed_count |-> Len(sender[s].failed),
          total_subscriptions |-> Len(sender[s].subscriptions),
          successful_deliveries |-> sender[s].successful,
          failed_deliveries |->
              [j \in 1..Len(sender[s].failed) |->
                  [user_id |-> sender[s].failed[j].user_id,
                   subscription_id |-> sender[s].failed[j].subscription_id,
                   error |-> sender[s].failed[j].error]]]]
    /\ UNCHANGED <<subscriptions, unsub, sub, genVars>>

\* The response of handleNotificationSend after the sends and the tracking
notificationResponse(s) ==
    /\ sender[s].pc = "sending"
    /\ AllSettled(s)
    /\ \A j \in 1..Len(sender[s].fstate) : sender[s].fstate[j] = "done"
    /\ sender' = [sender EXCEPT ![s].pc = "done", ![s].response =
         [statusCode |-> 200,
          message |-> "Notifications sent successfully",
          sent_count |-> Len(sender[s].successful),
          failed_count |-> Len(sender[s].failed),
          total_subscriptions |-> Len(sender[s].subscriptions),
          successful_deliveries |-> sender[s].successful,
          failed_deliveries |->
              [j \in 1..Len(sender[s].failed) |->
                  [user_id |-> sender[s].failed[j].user_id,
                   subscription_id |-> sender[s].failed[j].subscription_id,
                   error |-> sender[s].failed[j].error]]]]
    /\ UNCHANGED <<subscriptions, unsub, sub, genVars>>

\* The invocation is over; the slot serves the next request.
notificationReturn(s) ==
    /\ sender[s].pc = "done"
    /\ sender' = [sender EXCEPT ![s] = IdleSender]
    /\ UNCHANGED <<subscriptions, unsub, sub, genVars>>

----------------------------------------------------------------------------
(* SNSService: the endpoints of the platform application.  An endpoint is  *)
(* [token, customUserData]; its ARN is determined by the token.            *)

NoArn == [kind |-> "none", id |-> ""]                \* endpoint_arn: ''
EndpointArn(token) == [kind |-> "endpoint", id |-> token]
\* arn:aws:sns:...:app/APNS/dummy-endpoint-${customUserData}
DummyArn(customUserData) == [kind |-> "dummy", id |-> customUserData]

\* CreatePlatformEndpoint: creates the endpoint, returns the existing one when
\* the token is registered with the same attributes, and rejects the request
\* with InvalidParameter when it is registered with other attributes.
createPlatformEndpoint(deviceToken, customUserData, snsOk) ==
    IF ~snsOk
    THEN [success |-> FALSE, endpointArn |-> NoArn, endpoints |-> endpoints]
    ELSE IF \E e \in endpoints : e.token = deviceToken /\ e.customUserData # customUserData
    THEN \* handleExistingEndpoint
         [success |-> TRUE, endpointArn |-> DummyArn(customUserData), endpoints |-> endpoints]
    ELSE [success |-> TRUE, endpointArn |-> EndpointArn(deviceToken),
          endpoints |-> endpoints \cup {[token |-> deviceToken,
                                         customUserData |-> customUserData]}]

\* Publish to TargetArn: succeeds when SNS accepts the message for an endpoint
\* that exists.
sendNotificationToEndpoint(table, endpointArn, publishOk) ==
    /\ publishOk
    /\ endpointArn.kind = "endpoint"
    /\ \E e \in table : e.token = endpointArn.id

\* DeleteEndpoint; a failure is logged
deleteEndpoint(table, endpointArn, deleteOk) ==
    IF deleteOk /\ endpointArn.kind = "endpoint"
    THEN {e \in table : e.token # endpointArn.id}
    ELSE table

\* A request sent to SNS and whether the service method reported success
SnsCall(op, arn, ok) == [op |-> op, arn |-> arn, ok |-> ok]

\* sendNotificationToDirectToken that keeps the endpoint when the send failed
sendNotificationToDirectTokenKeepsFailed(deviceToken, customUserData, createOk, publishOk, deleteOk) ==
    LET createResponse == createPlatformEndpoint(deviceToken, customUserData, createOk)
        arn == createResponse.endpointArn
        created == SnsCall("CreatePlatformEndpoint", arn, createResponse.success)
    IN IF ~createResponse.success
       THEN [success |-> FALSE, endpoints |-> endpoints, calls |-> <<created>>]
       ELSE LET result == sendNotificationToEndpoint(createResponse.endpoints, arn, publishOk)
            IN IF result
               THEN [success |-> result,
                     endpoints |-> deleteEndpoint(createResponse.endpoints, arn, deleteOk),
                     calls |-> <<created, SnsCall("Publish", arn, result),
                                 SnsCall("DeleteEndpoint", arn,
                                         deleteOk /\ arn.kind = "endpoint")>>]
               ELSE [success |-> result, endpoints |-> createResponse.endpoints,
                     calls |-> <<created, SnsCall("Publish", arn, result)>>]

\* sendNotificationToDirectToken: an endpoint is created for the token,
\* published to once and deleted; the result of the publish is returned.
\* calls: the requests made, in order.
sendNotificationToDirectToken(deviceToken, customUserData, createOk, publishOk, deleteOk) ==
    LET createResponse == createPlatformEndpoint(deviceToken, customUserData, createOk)
        arn == createResponse.endpointArn
        created == SnsCall("CreatePlatformEndpoint", arn, createResponse.success)
    IN IF ~createResponse.success
       THEN [success |-> FALSE, endpoints |-> endpoints, calls |-> <<created>>]
       ELSE LET result == sendNotificationToEndpoint(createResponse.endpoints, arn, publishOk)
            IN [success |-> result,
                endpoints |-> deleteEndpoint(createResponse.endpoints, arn, deleteOk),
                calls |-> <<created, SnsCall("Publish", arn, result),
                            SnsCall("DeleteEndpoint", arn,
                                    deleteOk /\ arn.kind = "endpoint")>>]

----------------------------------------------------------------------------
(* NotificationService and the notification handler *)

Devices == {"d1", "d2"}
Tokens == {"t1", "t2"}
UUIDs == {"g1", "g2"}        \* values generateUUID may return
DirectToken == "direct-token"

NoRequest == [user_id |-> "", device_id |-> "", device_token |-> ""]

NoSvcResponse ==
    [statusCode |-> 0, total_devices |-> Absent, successful |-> Absent, failed |-> Absent,
     results |-> <<>>, devices |-> <<>>, device_id |-> "", endpoint_arn |-> NoArn]

\* route: the sub-route served; deviceTokens: the resolved targets; results: one
\* NotificationResult per target sent to so far; answers: whether SNS took the
\* message for each target; calls: the requests the sends made to SNS;
\* response: what the handler returns
IdleSvc ==
    [pc |-> "idle", route |-> "", request |-> NoRequest, deviceTokens |-> <<>>,
     results |-> <<>>, answers |-> <<>>, calls |-> <<>>, response |-> NoSvcResponse]

\* put and delete on the table keyed device_id
storeDeviceToken(table, item) ==
    {it \in table : it.device_id # item.device_id} \cup {item}

deleteDeviceToken(table, deviceId) == {it \in table : it.device_id # deviceId}

\* The three lookups; each returns [] when the store call fails.
getDeviceToken(deviceId, fetchOk) ==
    IF fetchOk THEN SetToSeq({it \in deviceTokens : it.device_id = deviceId}) ELSE <<>>

getUserDeviceTokens(userId, fetchOk) ==
    IF fetchOk THEN SetToSeq({it \in deviceTokens : it.user_id = userId}) ELSE <<>>

getAllDeviceTokens(fetchOk) ==
    IF fetchOk THEN SetToSeq(deviceTokens) ELSE <<>>

\* validateNotificationRequest: at least one target
validateNotificationRequest(request) ==
    request.user_id # "" \/ request.device_id # "" \/ request.device_token # ""

\* POST /notifications/register: validation, registerDevice and the response
handleRegisterDevice(body, uuid, snsOk, putOk) ==
    /\ svc.pc = "idle"
    /\ LET user_id == IF body.user_id # "" THEN body.user_id ELSE "anonymous"
           device_id == IF body.device_id # "" THEN body.device_id ELSE uuid
           endpointResult == createPlatformEndpoint(body.device_token, device_id, snsOk)
           item == [device_id |-> device_id, user_id |-> user_id,
                    device_token |-> body.device_token,
                    endpoint_arn |-> endpointResult.endpointArn, active |-> TRUE]
           started == [IdleSvc EXCEPT !.pc = "done", !.route = "register", !.request = body]
       IN IF body.device_token = ""
          THEN /\ svc' = [started EXCEPT !.response.statusCode = 400]
               /\ UNCHANGED <<deviceTokens, endpoints>>
          ELSE IF ~endpointResult.success
          THEN /\ svc' = [started EXCEPT !.response.statusCode = 500]
               /\ UNCHANGED <<deviceTokens, endpoints>>
          ELSE IF ~putOk
          THEN /\ svc' = [started EXCEPT !.response.statusCode = 500]
               /\ endpoints' = endpointResult.endpoints
               /\ UNCHANGED deviceTokens
          ELSE /\ svc' = [started EXCEPT !.response.statusCode = 200,
                                         !.response.device_id = device_id,
                                         !.response.endpoint_arn = endpointResult.endpointArn]
               /\ endpoints' = endpointResult.endpoints
               /\ deviceTokens' = storeDeviceToken(deviceTokens, item)
    /\ UNCHANGED webVars

\* GET /notifications/devices: listDevices and the response.  The devices of
\* the user, or of every user when the query names none.
handleListDevices(user_id, fetchOk) ==
    /\ svc.pc = "idle"
    /\ LET devices == IF user_id # ""
                      THEN getUserDeviceTokens(user_id, fetchOk)
                      ELSE getAllDeviceTokens(fetchOk)
       IN svc' = [IdleSvc EXCEPT !.pc = "done", !.route = "list",
                     !.request.user_id = user_id,
                     !.response.statusCode = 200,
                     !.response.total_devices = Len(devices),
                     !.response.devices =
                         [k \in 1..Len(devices) |->
                             [device_id |-> devices[k].device_id,
                              user_id |-> devices[k].user_id,
                              active |-> devices[k].active]]]
    /\ UNCHANGED <<webVars, deviceTokens, endpoints>>

\* DELETE /notifications/devices: validation, deleteDevice and the response
handleDeleteDevice(device_id, deleteOk) ==
    /\ svc.pc = "idle"
    /\ LET started == [IdleSvc EXCEPT !.pc = "done", !.route = "delete",
                                      !.request.device_id = device_id]
       IN IF device_id = ""
          THEN /\ svc' = [started EXCEPT !.response.statusCode = 400]
               /\ UNCHANGED deviceTokens
          ELSE IF deleteOk
          THEN /\ svc' = [started EXCEPT !.response.statusCode = 200,
                                         !.response.device_id = device_id]
               /\ deviceTokens' = deleteDeviceToken(deviceTokens, device_id)
          ELSE /\ svc' = [started EXCEPT !.response.statusCode = 404]
               /\ UNCHANGED deviceTokens
    /\ UNCHANGED <<webVars, endpoints>>

\* A resolution that looks the device or the user up before it considers the token
ResolveDeviceTokensStoreFirst(request, fetchOk) ==
    IF request.device_id # "" THEN getDeviceToken(request.device_id, fetchOk)
    ELSE IF request.user_id # "" THEN getUserDeviceTokens(request.user_id, fetchOk)
    ELSE IF request.device_token # ""
    THEN << [device_id |-> DirectToken, user_id |-> "direct",
             device_token |-> request.device_token, endpoint_arn |-> NoArn,
             active |-> TRUE] >>
    ELSE getAllDeviceTokens(fetchOk)

\* sendNotifications: the device tokens to send to
ResolveDeviceTokens(request, fetchOk) ==
    IF request.device_token # ""
    THEN << [device_id |-> DirectToken, user_id |-> "direct",
             device_token |-> request.device_token, endpoint_arn |-> NoArn,
             active |-> TRUE] >>
    ELSE IF request.device_id # "" THEN getDeviceToken(request.device_id, fetchOk)
    ELSE IF request.user_id # "" THEN getUserDeviceTokens(request.user_id, fetchOk)
    ELSE getAllDeviceTokens(fetchOk)

\* POST /notifications/send: validation, the resolution of the targets, and
\* the response when there is none
handleSendNotification(body, fetchOk) ==
    /\ svc.pc = "idle"
    /\ LET started == [IdleSvc EXCEPT !.route = "send", !.request = body]
           found == ResolveDeviceTokens(body, fetchOk)
       IN svc' =
            IF ~validateNotificationRequest(body)
            THEN [started EXCEPT !.pc = "done", !.response.statusCode = 400]
            ELSE IF Len(found) = 0
            THEN [started EXCEPT !.pc = "done", !.response.statusCode = 404]
            ELSE [started EXCEPT !.pc = "sending", !.deviceTokens = found]
    /\ UNCHANGED <<webVars, deviceTokens, endpoints>>

\* sendNotifications, one turn of the loop over deviceTokens: the next target
\* is sent to and its result pushed.  A registered device is published to at
\* its endpoint_arn; a direct token gets an endpoint created, published to and
\* deleted.
sendNotifications(createOk, publishOk, deleteOk) ==
    /\ svc.pc = "sending"
    /\ Len(svc.results) < Len(svc.deviceTokens)
    /\ LET tokenInfo == svc.deviceTokens[Len(svc.results) + 1]
           direct == sendNotificationToDirectToken(tokenInfo.device_token, tokenInfo.device_id,
                                                   createOk, publishOk, deleteOk)
       IN IF tokenInfo.endpoint_arn # NoArn
          THEN \* sendNotificationToDevice
               LET success == sendNotificationToEndpoint(endpoints, tokenInfo.endpoint_arn,
                                                         publishOk)
               IN /\ svc' = [svc EXCEPT
                       !.results = Append(@, [success |-> success,
                                              device_id |-> tokenInfo.device_id]),
                       !.answers = Append(@, success),
                       !.calls = Append(@, SnsCall("Publish", tokenInfo.endpoint_arn,
                                                   success))]
                  /\ UNCHANGED endpoints
          ELSE IF tokenInfo.device_token = ""
          THEN \* 'Invalid token info format'
               /\ svc' = [svc EXCEPT
                    !.results = Append(@, [success |-> FALSE,
                                           device_id |-> tokenInfo.device_id]),
                    !.answers = Append(@, FALSE)]
               /\ UNCHANGED endpoints
          ELSE \* sendNotificationToDirectToken
               /\ svc' = [svc EXCEPT
                    !.results = Append(@, [success |-> direct.success,
                                           device_id |-> tokenInfo.device_id]),
                    !.answers = Append(@, direct.success),
                    !.calls = @ \o direct.calls]
               /\ endpoints' = direct.endpoints
    /\ UNCHANGED <<webVars, deviceTokens>>

\* a count that takes every result
CountResultsAll(results, success) == Len(results)

\* the number of results with the given success
CountResults(results, success) ==
    Cardinality({k \in 1..Len(results) : results[k].success = success})

\* The result of sendNotifications and the response of handleSendNotification
sendNotificationsResponse ==
    /\ svc.pc = "sending"
    /\ Len(svc.results) = Len(svc.deviceTokens)
    /\ svc' = [svc EXCEPT !.pc = "done", !.response =
         [NoSvcResponse EXCEPT !.statusCode = 200,
                               !.total_devices = Len(svc.deviceTokens),
                               !.successful = CountResults(svc.results, TRUE),
                               !.failed = CountResults(svc.results, FALSE),
                               !.results = svc.results]]
    /\ UNCHANGED <<webVars, deviceTokens, endpoints>>

\* The invocation is over; the next request starts a new one.
notificationHandlerReturn ==
    /\ svc.pc = "done"
    /\ svc' = IdleSvc
    /\ UNCHANGED <<webVars, deviceTokens, endpoints>>

----------------------------------------------------------------------------
(* Specification: requests served one at a time, collaborators that work *)

WebPush == "pulse-notifications"
GenFunctions == "pulse-gen-functions"

Init ==
    /\ stack \in {WebPush, GenFunctions}
    /\ deviceTokens = {}
    /\ endpoints = {}
    /\ svc = IdleSvc
    /\ subscriptions = {}
    /\ sender = [s \in Senders |-> IdleSender]
    /\ unsub = IdleUnsub
    /\ sub = IdleSub

\* Request bodies
\* u1 registers two browsers, u2 one; and the requests that fail validation
SubscriptionBodies ==
    { [user_id |-> "u1", subscription |-> WebPushSubscription(1)],
      [user_id |-> "u1", subscription |-> WebPushSubscription(2)],
      [user_id |-> "u2", subscription |-> WebPushSubscription(1)] }
    \cup [user_id : {NoUser}, subscription : {WebPushSubscription(1)}]
    \cup [user_id : {"u1"}, subscription : InvalidSubscriptions]
UnsubscriptionBodies == [user_id : Users \cup {NoUser}]
NotificationBodies == [message : {"hello", ""}, user_id : Users \cup {NoUser}]

\* No invocation of the web push stack is running: its next request can be taken.
Quiescent ==
    /\ stack = WebPush
    /\ \A s \in DOMAIN sender : sender[s].pc = "idle"
    /\ unsub.pc = "idle"
    /\ sub.pc = "idle"

\* The table has room for the item a valid registration writes.
RoomFor(body) ==
    SubscriptionIsValid(body) =>
        \/ HasItem(subscriptions, body.user_id, generateSubscriptionId(body.subscription.endpoint))
        \/ Cardinality(subscriptions) < MaxItems

\* The failure_count the j-th failed entry of s is about to raise is below limit.
BelowLimit(s, j, limit) ==
    /\ j \in 1..Len(sender[s].failed)
    /\ UpdateBase(subscriptions, sender[s].failed[j].user_id,
                  sender[s].failed[j].subscription_id).failure_count < limit

BelowCap(s, j) == BelowLimit(s, j, MaxFailureCount)

\* The steps of the invocations that are running, when every store call
\* succeeds and the push service answers as it likes.
RegistrySteps ==
    \/ subscriptionReturn
    \/ \E i \in 1..MaxItems : deleteSubscription(i, TRUE)
    \/ unsubscriptionResponse
    \/ unsubscriptionReturn

SenderSteps ==
    \/ \E s \in DOMAIN sender, i \in 1..MaxItems, outcome \in SendSuccess \cup SendFailure :
          sendNotification(s, i, outcome)
    \/ \E s \in DOMAIN sender, i \in 1..MaxItems : updateLastNotificationSent(s, i, TRUE)
    \/ \E s \in DOMAIN sender, j \in 1..MaxItems : deactivateSubscription(s, j, TRUE)
    \/ \E s \in DOMAIN sender : notificationResponse(s)
    \/ \E s \in DOMAIN sender : notificationReturn(s)

Steps ==
    \/ RegistrySteps
    \/ SenderSteps
    \/ \E s \in DOMAIN sender, j \in 1..MaxItems : BelowCap(s, j) /\ updateFailureCounts(s, j, TRUE)

\* The requests arrive one at a time.
Register(bodies, putOk) ==
    \E body \in bodies : Quiescent /\ RoomFor(body) /\ handleSubscription(body, putOk)

Unsubscribe(queryOk) ==
    \E body \in UnsubscriptionBodies : Quiescent /\ handleUnsubscription(body, queryOk)

Notify(vapidOk, queryOk) ==
    \E s \in DOMAIN sender, body \in NotificationBodies :
        Quiescent /\ handleNotificationSend(s, body, vapidOk, queryOk)

Requests ==
    \/ Register(SubscriptionBodies, TRUE)
    \/ Unsubscribe(TRUE)
    \/ Notify(TRUE, TRUE)

\* The device token stack: its requests, one at a time, and the turns of the
\* send loop; SNS accepts or refuses each publish as it likes.
DeviceRegistrationBodies ==
    { [user_id |-> "u1", device_id |-> "d1", device_token |-> "t1"],
      [user_id |-> "u1", device_id |-> "d2", device_token |-> "t2"],
      [user_id |-> "u2", device_id |-> "d1", device_token |-> "t2"],
      [user_id |-> "u2", device_id |-> "", device_token |-> "t1"],
      [user_id |-> "u1", device_id |-> "d1", device_token |-> ""] }

DeviceNotificationBodies ==
    { [user_id |-> "u1", device_id |-> "", device_token |-> ""],
      [user_id |-> "u2", device_id |-> "", device_token |-> ""],
      [user_id |-> "", device_id |-> "d1", device_token |-> ""],
      [user_id |-> "", device_id |-> "", device_token |-> "t1"],
      [user_id |-> "u1", device_id |-> "d1", device_token |-> "t2"],
      NoRequest }

\* No invocation of the device token stack is running.
GenQuiescent ==
    /\ stack = GenFunctions
    /\ svc.pc = "idle"

\* The table has room for the item a registration writes.
RoomForDevice(body, uuid) ==
    \/ \E it \in deviceTokens :
          it.device_id = (IF body.device_id # "" THEN body.device_id ELSE uuid)
    \/ Cardinality(deviceTokens) < MaxDevices

RegisterDevice(snsOk, putOk) ==
    \E body \in DeviceRegistrationBodies, uuid \in UUIDs :
        GenQuiescent /\ RoomForDevice(body, uuid) /\ handleRegisterDevice(body, uuid, snsOk, putOk)

DeleteDevice(deleteOk) ==
    \E device_id \in Devices \cup {""} : GenQuiescent /\ handleDeleteDevice(device_id, deleteOk)

SendNotification(fetchOk) ==
    \E body \in DeviceNotificationBodies : GenQuiescent /\ handleSendNotification(body, fetchOk)

ListDevices(fetchOk) ==
    \E user_id \in Users \cup {""} : GenQuiescent /\ handleListDevices(user_id, fetchOk)

GenRequests ==
    \/ RegisterDevice(TRUE, TRUE)
    \/ DeleteDevice(TRUE)
    \/ SendNotification(TRUE)
    \/ ListDevices(TRUE)

GenSteps ==
    \/ \E publishOk \in BOOLEAN : sendNotifications(TRUE, publishOk, TRUE)
    \/ sendNotificationsResponse
    \/ notificationHandlerReturn

Next == Requests \/ Steps \/ GenRequests \/ GenSteps

Spec == Init /\ [][Next]_vars

----------------------------------------------------------------------------
(* Specification: collaborators that may fail.  A store call, the retrieval *)
(* of the VAPID parameters or a tracking write may fail at any request.     *)

\* u1 registers two browsers
FaultSubscriptionBodies ==
    {body \in SubscriptionBodies : body.user_id = "u1" /\ SubscriptionIsValid(body)}

FaultRequests ==
    \/ Register(FaultSubscriptionBodies, TRUE)
    \/ Register(FaultSubscriptionBodies, FALSE)
    \/ Unsubscribe(TRUE)
    \/ Unsubscribe(FALSE)
    \/ Notify(TRUE, TRUE)
    \/ Notify(FALSE, TRUE)
    \/ Notify(TRUE, FALSE)

FaultSteps ==
    \/ \E i \in 1..MaxItems : deleteSubscription(i, FALSE)
    \/ \E s \in DOMAIN sender, i \in 1..MaxItems : updateLastNotificationSent(s, i, FALSE)
    \/ \E s \in DOMAIN sender, j \in 1..MaxItems : updateFailureCounts(s, j, FALSE)
    \/ \E s \in DOMAIN sender, j \in 1..MaxItems : deactivateSubscription(s, j, FALSE)

GenFaultRequests ==
    \/ RegisterDevice(FALSE, TRUE)
    \/ RegisterDevice(TRUE, FALSE)
    \/ DeleteDevice(FALSE)
    \/ SendNotification(FALSE)
    \/ ListDevices(FALSE)

GenFaultSteps ==
    \/ \E publishOk \in BOOLEAN : sendNotifications(FALSE, publishOk, TRUE)
    \/ \E publishOk \in BOOLEAN : sendNotifications(TRUE, publishOk, FALSE)

NextFault ==
    \/ FaultRequests \/ Steps \/ FaultSteps
    \/ GenRequests \/ GenSteps \/ GenFaultRequests \/ GenFaultSteps

SpecFault == Init /\ [][NextFault]_vars

\* Every call a running invocation awaits returns, with a result or with an
\* error: a step of a running invocation that can be taken is taken.
RunningSteps == Steps \/ FaultSteps \/ GenSteps \/ GenFaultSteps

SpecLive == SpecFault /\ WF_vars(RunningSteps)

----------------------------------------------------------------------------
(* Specification: one owner with one browser, failure_count running past   *)
(* MAX_FAILURES                                                            *)

RetireLimit == MAX_FAILURES + 2

RetireSubscriptionBodies ==
    {body \in SubscriptionBodies : body.user_id = "u1" /\ body.subscription.endpoint = 1}

NextRetire ==
    \/ Register(RetireSubscriptionBodies, TRUE)
    \/ Unsubscribe(TRUE)
    \/ Notify(TRUE, TRUE)
    \/ RegistrySteps
    \/ SenderSteps
    \/ \E s \in DOMAIN sender, j \in 1..MaxItems :
          BelowLimit(s, j, RetireLimit) /\ updateFailureCounts(s, j, TRUE)

InitRetire == Init /\ stack = WebPush

SpecRetire == InitRetire /\ [][NextRetire]_vars

----------------------------------------------------------------------------
(* Specification: a table that outgrows one page.  Two owners with two      *)
(* browsers each; the table may hold one item more than a Query or Scan     *)
(* call evaluates.                                                          *)

PagesSubscriptionBodies ==
    [user_id : Users, subscription : {WebPushSubscription(1), WebPushSubscription(2)}]

PagesNotificationBodies == [message : {"hello"}, user_id : {"u1", NoUser}]

\* The table has room for the item the registration writes.
RoomForPage(body) ==
    \/ HasItem(subscriptions, body.user_id, generateSubscriptionId(body.subscription.endpoint))
    \/ Cardinality(subscriptions) < PageLimit + 1

NextPages ==
    \/ \E body \in PagesSubscriptionBodies :
          Quiescent /\ RoomForPage(body) /\ handleSubscription(body, TRUE)
    \/ subscriptionReturn
    \/ \E s \in DOMAIN sender, body \in PagesNotificationBodies :
          Quiescent /\ handleNotificationSend(s, body, TRUE, TRUE)
    \/ \E s \in DOMAIN sender, i \in 1..PageLimit : sendNotification(s, i, Created)
    \/ \E s \in DOMAIN sender, i \in 1..PageLimit : updateLastNotificationSent(s, i, TRUE)
    \/ \E s \in DOMAIN sender : notificationResponse(s)
    \/ \E s \in DOMAIN sender : notificationReturn(s)

SpecPages == InitRetire /\ [][NextPages]_vars

----------------------------------------------------------------------------
(* Specification: a deregistration concurrent with a dispatch.  Each Lambda *)
(* invocation runs on its own; an unsubscription may start while a dispatch *)
(* is sending and a dispatch while an unsubscription is deleting.           *)
(* Registrations arrive while nothing else runs.                            *)

RaceSubscriptionBodies ==
    [user_id : {"u1"}, subscription : {WebPushSubscription(1), WebPushSubscription(2)}]

RaceNotificationBodies == [message : {"hello"}, user_id : {"u1", NoUser}]

NextRace ==
    \/ Register(RaceSubscriptionBodies, TRUE)
    \/ /\ stack = WebPush
       /\ sub.pc = "idle"
       /\ handleUnsubscription([user_id |-> "u1"], TRUE)
    \/ \E s \in DOMAIN sender, body \in RaceNotificationBodies :
          /\ stack = WebPush
          /\ sub.pc = "idle"
          /\ handleNotificationSend(s, body, TRUE, TRUE)
    \/ Steps

SpecRace == InitRetire /\ [][NextRace]_vars

----------------------------------------------------------------------------
(* Specification: concurrent dispatches.  Two invocations of the sender     *)
(* Lambda run at the same time over the subscriptions of u1, which are      *)
(* registered once; every tracker write succeeds and the push service       *)
(* answers each send as it likes.                                           *)

ConcurrentSenders == {"s1", "s2"}

InitConcurrent ==
    /\ stack = WebPush
    /\ deviceTokens = {}
    /\ endpoints = {}
    /\ svc = IdleSvc
    /\ subscriptions = {}
    /\ sender = [s \in ConcurrentSenders |-> IdleSender]
    /\ unsub = IdleUnsub
    /\ sub = IdleSub

NextConcurrent ==
    \/ \E body \in RaceSubscriptionBodies :
          /\ Quiescent
          /\ ~HasItem(subscriptions, body.user_id,
                      generateSubscriptionId(body.subscription.endpoint))
          /\ handleSubscription(body, TRUE)
    \/ subscriptionReturn
    \/ \E s \in DOMAIN sender :
          /\ sub.pc = "idle"
          /\ handleNotificationSend(s, [message |-> "hello", user_id |-> "u1"], TRUE, TRUE)
    \/ \E s \in DOMAIN sender, i \in 1..MaxItems, outcome \in SendSuccess \cup SendFailure :
          sendNotification(s, i, outcome)
    \/ \E s \in DOMAIN sender, i \in 1..MaxItems : updateLastNotificationSent(s, i, TRUE)
    \/ \E s \in DOMAIN sender, j \in 1..MaxItems : updateFailureCounts(s, j, TRUE)
    \/ \E s \in DOMAIN sender, j \in 1..MaxItems : deactivateSubscription(s, j, TRUE)
    \/ \E s \in DOMAIN sender : notificationResponse(s)

SpecConcurrent == InitConcurrent /\ [][NextConcurrent]_vars

----------------------------------------------------------------------------
(* Specification: one owner registering browsers with any of the sample     *)
(* endpoint URLs.                                                           *)

IdsSubscriptionBodies ==
    [user_id : {"u1"}, subscription : {WebPushSubscription(e) : e \in AllEndpoints}]

NextIds ==
    \/ Register(IdsSubscriptionBodies, TRUE)
    \/ subscriptionReturn

SpecIds == InitRetire /\ [][NextIds]_vars

----------------------------------------------------------------------------
(* Specification: sends to raw device tokens next to a registry in which a  *)
(* client registered a device under the device_id the raw-token send uses   *)
(* as CustomUserData.                                                       *)

DirectRegistrationBodies ==
    { [user_id |-> "u1", device_id |-> DirectToken, device_token |-> "t1"],
      [user_id |-> "u1", device_id |-> "d1", device_token |-> "t2"] }

DirectNotificationBodies ==
    [user_id : {""}, device_id : {""}, device_token : Tokens]
    \cup { [user_id |-> "u1", device_id |-> "", device_token |-> ""] }

NextDirect ==
    \/ \E body \in DirectRegistrationBodies, uuid \in UUIDs :
          GenQuiescent /\ handleRegisterDevice(body, uuid, TRUE, TRUE)
    \/ \E body \in DirectNotificationBodies :
          GenQuiescent /\ handleSendNotification(body, TRUE)
    \/ \E device_id \in {DirectToken, "d1"} :
          GenQuiescent /\ handleDeleteDevice(device_id, TRUE)
    \/ GenSteps

InitDirect == Init /\ stack = GenFunctions

SpecDirect == InitDirect /\ [][NextDirect]_vars

----------------------------------------------------------------------------
(* Properties *)

Owners == Users \cup {NoUser}

\* The records of owner u for endpoint e
RecordsFor(u, e) ==
    {it \in subscriptions : it.user_id = u /\ it.subscription.endpoint = e}

\* The records of owner u
RecordsOf(u) == {it \in subscriptions : it.user_id = u}

\* A dispatch that resolved targets has returned its result.
Dispatched(s) ==
    /\ sender[s].pc = "done"
    /\ Len(sender[s].subscriptions) > 0

\* The item the dispatch resolved under the key of entry e
Resolved(s, e) ==
    CHOOSE t \in {sender[s].subscriptions[i] : i \in 1..Len(sender[s].subscriptions)} :
        ItemKey(t) = ItemKey(e)

\* C1: registering the same owner and endpoint again leaves exactly one
\* record for that endpoint under the owner, keyed (owner,
\* generateSubscriptionId(endpoint)) and holding what the later call wrote.
C1_OneRecordPerEndpoint ==
    /\ \A a, b \in subscriptions :
          (a.user_id = b.user_id /\ a.subscription.endpoint = b.subscription.endpoint)
              => a = b
    /\ (sub.pc = "done" /\ sub.response.statusCode = 200) =>
          LET u == sub.body.user_id
              e == sub.body.subscription.endpoint
          IN /\ RecordsFor(u, e) = {SubscriptionItem(u, sub.body.subscription)}
             /\ \A it \in RecordsFor(u, e) :
                   ItemKey(it) = <<u, generateSubscriptionId(e)>>
             /\ sub.response.subscription_id = generateSubscriptionId(e)

\* A registration has replaced the record of the same owner and endpoint.
C1_Witness ==
    /\ sub.pc = "done"
    /\ sub.response.statusCode = 200
    /\ sub.replaced

\* C2: after a dispatch in which the push service answered 410 Gone for a
\* subscription, that subscription is inactive in the store; a resolution of
\* active targets yields active records only and no inactive record is among
\* the active subscriptions of any owner.
C2_GoneRetires ==
    /\ \A s \in DOMAIN sender : Dispatched(s) =>
          \A j \in 1..Len(sender[s].failed) :
              sender[s].failed[j].statusCode = Gone =>
                  \E it \in subscriptions :
                      ItemKey(it) = ItemKey(sender[s].failed[j]) /\ it.status = "inactive"
    /\ \A s \in DOMAIN sender : \A i \in 1..Len(sender[s].subscriptions) :
          sender[s].subscriptions[i].status = "active"
    /\ \A it \in subscriptions : it.status = "inactive" =>
          \A u \in Owners : it \notin getActiveSubscriptions(u)

\* A later dispatch to the owner of a retired subscription has left it out.
C2_Witness ==
    \E s \in DOMAIN sender :
        /\ Dispatched(s)
        /\ \E it \in subscriptions :
              /\ it.status = "inactive"
              /\ it.user_id = sender[s].body.user_id
              /\ \A i \in 1..Len(sender[s].subscriptions) :
                    ItemKey(sender[s].subscriptions[i]) # ItemKey(it)

\* C3: after a dispatch, every subscription it delivered to has failure_count 0
\* and a last_notification_sent timestamp.
C3_SuccessResets ==
    \A s \in DOMAIN sender : Dispatched(s) =>
        \A k \in 1..Len(sender[s].successful) :
            \A it \in subscriptions :
                ItemKey(it) = ItemKey(sender[s].successful[k]) =>
                    /\ it.failure_count = 0
                    /\ it.last_notification_sent = Timestamp

EmptyDispatch(s) ==
    /\ sender[s].pc = "done"
    /\ sender[s].body.message # ""
    /\ sender[s].body.user_id \in Users
    /\ Len(sender[s].subscriptions) = 0
    /\ getActiveSubscriptions(sender[s].body.user_id) = {}

EmptyDispatchStep ==
    \A s \in DOMAIN sender :
        (sender[s].pc = "idle" /\ EmptyDispatch(s)') => subscriptions' = subscriptions

DeregistrationStep ==
    /\ (unsub.pc = "idle" /\ unsub'.pc = "deleting") =>
          /\ Len(unsub'.items) = Cardinality(RecordsOf(unsub'.user_id))
          /\ subscriptions' = subscriptions
    /\ (unsub.pc = "idle" /\ unsub'.pc = "done" /\ unsub'.user_id # NoUser) =>
          /\ unsub'.response.statusCode = 404
          /\ RecordsOf(unsub'.user_id) = {}
          /\ subscriptions' = subscriptions
    /\ unsub.pc = "deleting" =>
          /\ subscriptions' \subseteq subscriptions
          /\ \A it \in subscriptions : it.user_id # unsub.user_id => it \in subscriptions'

RetiredByGone(it) ==
    \E s \in DOMAIN sender : \E j \in 1..Len(sender[s].failed) :
        /\ sender[s].fstate[j] = "counted"
        /\ sender'[s].fstate[j] = "done"
        /\ sender[s].failed[j].statusCode = Gone
        /\ ItemKey(sender[s].failed[j]) = ItemKey(it)

\* An active subscription that the step leaves inactive was answered 410.
RetirementStep ==
    \A it \in subscriptions : it.status = "active" =>
        \A after \in subscriptions' :
            (ItemKey(after) = ItemKey(it) /\ after.status # "active") => RetiredByGone(it)

Occurrences(entries, key) ==
    Cardinality({k \in 1..Len(entries) : ItemKey(entries[k]) = key})

\* The web push dispatch reports its N targets, the M the push service took and
\* the N - M it refused, each target in exactly one of the two lists.
WebAggregate(s) ==
    LET r == sender[s].response
        N == Len(sender[s].subscriptions)
        M == Cardinality({i \in 1..N : sender[s].answers[i] \in SendSuccess})
    IN /\ r.total_subscriptions = N
       /\ r.sent_count = M
       /\ r.failed_count = N - M
       /\ Len(r.successful_deliveries) = M
       /\ Len(r.failed_deliveries) = N - M
       /\ \A i \in 1..N :
             LET key == ItemKey(sender[s].subscriptions[i])
                 sent == Occurrences(r.successful_deliveries, key)
                 failed == Occurrences(r.failed_deliveries, key)
             IN /\ sent + failed = 1
                /\ sent = 1 <=> sender[s].answers[i] \in SendSuccess

\* The device token dispatch has returned its result for resolved targets.
DeviceDispatched ==
    /\ svc.pc = "done"
    /\ svc.route = "send"
    /\ Len(svc.deviceTokens) > 0

\* The device token dispatch reports its N targets, the M that SNS took and the
\* N - M it refused, with one result per target.
DeviceAggregate ==
    LET r == svc.response
        N == Len(svc.deviceTokens)
        M == Cardinality({k \in 1..N : svc.answers[k]})
    IN /\ r.total_devices = N
       /\ r.successful = M
       /\ r.failed = N - M
       /\ Len(r.results) = N
       /\ \A k \in 1..N :
             /\ r.results[k].device_id = svc.deviceTokens[k].device_id
             /\ r.results[k].success = svc.answers[k]

\* C6: a dispatch to N resolved targets of which M sends succeed reports M
\* successful entries, N - M failed entries and total N, every target in
\* exactly one of the two lists (web push sender and NotificationService).
C6_AggregateCounts ==
    /\ \A s \in DOMAIN sender : Dispatched(s) => WebAggregate(s)
    /\ DeviceDispatched => DeviceAggregate

\* A dispatch to two devices has returned with one success and one failure.
C6_Witness ==
    /\ DeviceDispatched
    /\ svc.response.total_devices = 2
    /\ svc.response.successful = 1
    /\ svc.response.failed = 1

\* C7: whatever the transport answers for the targets of a dispatch, all of
\* them failing included, the dispatch returns 200 with the aggregate; no
\* transport error becomes an error response.
C7_PartialFailureIsData ==
    /\ \A s \in DOMAIN sender : Dispatched(s) =>
          /\ sender[s].response.statusCode = 200
          /\ sender[s].response.sent_count + sender[s].response.failed_count
                 = Len(sender[s].subscriptions)
    /\ DeviceDispatched =>
          /\ svc.response.statusCode = 200
          /\ svc.response.successful + svc.response.failed = Len(svc.deviceTokens)

\* A web push dispatch to two targets has returned with both sends failed.
C7_Witness ==
    \E s \in DOMAIN sender :
        /\ Dispatched(s)
        /\ sender[s].response.sent_count = 0
        /\ sender[s].response.failed_count = 2

KeysOf(table) == {ItemKey(it) : it \in table}
DeviceIdsOf(table) == {it.device_id : it \in table}

\* The step is a delete issued by handleUnsubscription for the key.
DeletedByUnsubscription(key) ==
    /\ unsub.user_id = key[1]
    /\ \E i \in 1..Len(unsub.items) :
          /\ unsub.items[i] = key[2]
          /\ unsub.dstate[i] = "pending"
          /\ unsub'.dstate[i] = "deleted"

\* The step is a deleteDevice of the device.
DeletedByDeleteDevice(device_id) ==
    /\ svc.pc = "idle"
    /\ svc'.route = "delete"
    /\ svc'.request.device_id = device_id

\* No step of a dispatch takes a key out of either table, and a key that goes
\* is taken out by a deregistration.
RecordsStep ==
    /\ sender' # sender => KeysOf(subscriptions) \subseteq KeysOf(subscriptions')
    /\ (svc.route = "send" \/ svc'.route = "send") => deviceTokens' = deviceTokens
    /\ \A key \in KeysOf(subscriptions) \ KeysOf(subscriptions') :
          DeletedByUnsubscription(key)
    /\ \A device_id \in DeviceIdsOf(deviceTokens) \ DeviceIdsOf(deviceTokens') :
          DeletedByDeleteDevice(device_id)

\* C10: no step of the dispatch path deletes a record, a retired subscription
\* stays in the store as an inactive record, and the only steps that delete
\* records are those of handleUnsubscription and deleteDevice.
C10_OnlyDeregistrationDeletes ==
    /\ [][RecordsStep]_vars
    /\ [](\A s \in DOMAIN sender : \A j \in 1..Len(sender[s].failed) :
            sender[s].fstate[j] = "done" /\ sender[s].failed[j].statusCode = Gone =>
                \E it \in subscriptions :
                    ItemKey(it) = ItemKey(sender[s].failed[j]) /\ it.status = "inactive")

\* A subscription has been retired and its record is in the store.
C10_Witness ==
    \E s \in DOMAIN sender : \E j \in 1..Len(sender[s].failed) :
        /\ sender[s].fstate[j] = "done"
        /\ sender[s].failed[j].statusCode = Gone
        /\ \E it \in subscriptions :
              ItemKey(it) = ItemKey(sender[s].failed[j]) /\ it.status = "inactive"

\* The registration just answered with success found its token bound to an
\* endpoint that carries other attributes (CreatePlatformEndpoint rejects the
\* request with InvalidParameter).
TokenAlreadyBound ==
    /\ svc.pc = "done"
    /\ svc.route = "register"
    /\ svc.response.statusCode = 200
    /\ \E e \in endpoints :
          /\ e.token = svc.request.device_token
          /\ e.customUserData # svc.response.device_id

\* C11: a registration whose token is already bound to an endpoint succeeds,
\* and the endpoint_arn it returns and stores is the ARN of the endpoint the
\* platform holds for the token.
C11_ResolvesToExistingHandle ==
    TokenAlreadyBound =>
        /\ svc.response.endpoint_arn = EndpointArn(svc.request.device_token)
        /\ \E it \in deviceTokens :
              /\ it.device_id = svc.response.device_id
              /\ it.endpoint_arn = EndpointArn(svc.request.device_token)

\* C12: the records of device_tokens are one per owner and device token:
\* registering the same token again for the same owner, with or without a
\* device_id in the request, leaves a single record.
C12_SameTokenOneRecord ==
    \A a, b \in deviceTokens :
        (a.user_id = b.user_id /\ a.device_token = b.device_token) => a = b

\* The devices a listing for user_id shows when the store answers
Listed(user_id) ==
    LET devices == IF user_id # ""
                   THEN getUserDeviceTokens(user_id, TRUE)
                   ELSE getAllDeviceTokens(TRUE)
    IN [k \in 1..Len(devices) |-> devices[k].device_id]

\* C13: a store failure is never reported as an absence.  A send is answered
\* 404 only when the store holds no target for the request, a listing shows
\* the devices the store holds, a deletion is answered 404 only when the store
\* holds no record of the device, and a web push dispatch reports no active
\* subscriptions only when the owner has none; a failed store call is
\* answered 500.
C13_StoreFailureReachesCaller ==
    /\ (svc.pc = "done" /\ svc.route = "send" /\ svc.response.statusCode = 404) =>
          ResolveDeviceTokens(svc.request, TRUE) = <<>>
    /\ (svc.pc = "done" /\ svc.route = "list" /\ svc.response.statusCode = 200) =>
          [k \in 1..Len(svc.response.devices) |-> svc.response.devices[k].device_id]
              = Listed(svc.request.user_id)
    /\ (svc.pc = "done" /\ svc.route = "delete" /\ svc.response.statusCode = 404) =>
          \A it \in deviceTokens : it.device_id # svc.request.device_id
    /\ \A s \in DOMAIN sender :
          (sender[s].pc = "done" /\ sender[s].response.statusCode = 200
             /\ Len(sender[s].subscriptions) = 0) =>
                getActiveSubscriptions(sender[s].body.user_id) = {}

\* What a deleteDevice request for a device id does, by whether the store
\* holds a record of the device
DeleteDeviceStep ==
    (svc.pc = "idle" /\ svc'.pc = "done" /\ svc'.route = "delete"
       /\ svc'.request.device_id # "") =>
        IF \E it \in deviceTokens : it.device_id = svc'.request.device_id
        THEN /\ svc'.response.statusCode = 200
             /\ deviceTokens' = {it \in deviceTokens : it.device_id # svc'.request.device_id}
        ELSE /\ svc'.response.statusCode = 404
             /\ deviceTokens' = deviceTokens

\* C14: deleteDevice(device_id) deletes the record of the device and answers
\* 200 when the store holds one, and answers 404 when it holds none.
C14_DeleteOneOrNotFound == [][DeleteDeviceStep]_vars

\* The elements of a sequence
Range(seq) == {seq[k] : k \in 1..Len(seq)}

\* What the request that names no target does, in either dispatcher: it is not
\* refused as invalid and it resolves every active record of the store.
BroadcastStep ==
    /\ \A s \in DOMAIN sender :
          (sender[s].pc = "idle" /\ sender'[s].pc # "idle"
             /\ sender'[s].body.message # "" /\ sender'[s].body.user_id = NoUser
             /\ sender'[s].response.statusCode # 500) =>
                /\ sender'[s].response.statusCode # 400
                /\ Range(sender'[s].subscriptions)
                      = {it \in subscriptions : it.status = "active"}
    /\ (svc.pc = "idle" /\ svc'.pc # "idle" /\ svc'.route = "send"
          /\ svc'.request = NoRequest) =>
             /\ svc'.response.statusCode # 400
             /\ Range(svc'.deviceTokens) = {it \in deviceTokens : it.active}

\* C15: a send request without user id, device id and device token is
\* accepted and its targets are all the active records of the store.
C15_Broadcast == [][BroadcastStep]_vars

\* A web push registration body that misses user_id, subscription.endpoint,
\* keys.p256dh or keys.auth
MissesRequiredField(body) ==
    \/ body.user_id = NoUser
    \/ body.subscription.endpoint = NoEndpoint
    \/ body.subscription.keys.p256dh = ""
    \/ body.subscription.keys.auth = ""

\* The step that serves an invalid registration changes neither table and
\* creates no endpoint.
InvalidRegistrationStep ==
    /\ (sub.pc = "idle" /\ sub'.pc = "done" /\ MissesRequiredField(sub'.body)) =>
          subscriptions' = subscriptions
    /\ (svc.pc = "idle" /\ svc'.pc = "done" /\ svc'.route = "register"
          /\ svc'.request.device_token = "") =>
             /\ deviceTokens' = deviceTokens
             /\ endpoints' = endpoints

\* C16: a web push registration that misses user_id, subscription.endpoint,
\* keys.p256dh or keys.auth, and a device registration that misses
\* device_token, are answered 400, leave the store as it is and create no
\* SNS endpoint.
C16_InvalidRegistrationRejected ==
    /\ []((sub.pc = "done" /\ MissesRequiredField(sub.body)) =>
            sub.response.statusCode = 400)
    /\ []((svc.pc = "done" /\ svc.route = "register" /\ svc.request.device_token = "") =>
            svc.response.statusCode = 400)
    /\ [][InvalidRegistrationStep]_vars

\* A registration without keys.auth has been refused while the store holds records.
C16_Witness ==
    /\ sub.pc = "done"
    /\ sub.response.statusCode = 400
    /\ sub.body.user_id # NoUser
    /\ sub.body.subscription.endpoint # NoEndpoint
    /\ sub.body.subscription.keys.auth = ""
    /\ subscriptions # {}

\* The send to the k-th device token of the running sendNotifications is made
\* and its result pushed.
SendToDevice(k) ==
    /\ k = Len(svc.results) + 1
    /\ \E createOk, publishOk, deleteOk \in BOOLEAN :
          sendNotifications(createOk, publishOk, deleteOk)

\* C17: while a dispatch is sending, the send to every target that has no
\* result yet can take place, whichever other targets are still without
\* result (web push sender and NotificationService.sendNotifications).
C17_SendsIndependent ==
    /\ \A s \in DOMAIN sender : \A i \in 1..Len(sender[s].subscriptions) :
          (sender[s].pc = "sending" /\ sender[s].tstate[i] = "pending") =>
              ENABLED sendNotification(s, i, Created)
    /\ \A k \in 1..Len(svc.deviceTokens) :
          (svc.pc = "sending" /\ k > Len(svc.results)) => ENABLED SendToDevice(k)

\* Every target of the dispatch has its outcome on one of the two lists, the
\* write for every delivered target has been made or has failed, and every
\* failed entry has been through updateFailureCounts.
TrackingComplete(s) ==
    /\ Len(sender[s].successful) + Len(sender[s].failed) = Len(sender[s].subscriptions)
    /\ \A i \in 1..Len(sender[s].subscriptions) : sender[s].tstate[i] = "settled"
    /\ Len(sender[s].fstate) = Len(sender[s].failed)
    /\ \A j \in 1..Len(sender[s].failed) : sender[s].fstate[j] = "done"

\* Once an invocation of the sender has its response, it writes nothing.
AfterResponseStep ==
    \A s \in DOMAIN sender : sender[s].pc = "done" =>
        /\ subscriptions' = subscriptions
        /\ sender'[s] \in {sender[s], IdleSender}

\* C18: when a web push dispatch returns its response, the outcome of every
\* target has been handed to the tracking and every tracking write of the
\* dispatch has been made or has failed; after the response the invocation
\* writes nothing.
C18_TrackingBeforeResponse ==
    /\ [](\A s \in DOMAIN sender : Dispatched(s) => TrackingComplete(s))
    /\ [][AfterResponseStep]_vars

\* A dispatch has returned after a delivery and a 410 answer, and the store
\* shows both writes.
C18_Witness ==
    \E s \in DOMAIN sender :
        /\ Dispatched(s)
        /\ \E k \in 1..Len(sender[s].successful) : \E it \in subscriptions :
              /\ ItemKey(it) = ItemKey(sender[s].successful[k])
              /\ it.last_notification_sent = Timestamp
        /\ \E j \in 1..Len(sender[s].failed) : \E it \in subscriptions :
              /\ ItemKey(it) = ItemKey(sender[s].failed[j])
              /\ sender[s].failed[j].statusCode = Gone
              /\ it.status = "inactive"

\* The keys of the targets of s that the push service answered with success
\* (good = TRUE) or with a failure (good = FALSE)
AnsweredKeys(s, good) ==
    {ItemKey(sender[s].subscriptions[i]) :
        i \in {k \in 1..Len(sender[s].subscriptions) :
                  (sender[s].answers[k] \in SendSuccess) = good}}

\* C19: whether the tracking writes of a web push dispatch succeed or fail,
\* its response is 200 and lists as delivered exactly the targets the push
\* service accepted and as failed exactly those it refused, with the counts
\* of the two.
C19_TrackingFailureKeepsResult ==
    \A s \in DOMAIN sender : Dispatched(s) =>
        LET r == sender[s].response IN
        /\ r.statusCode = 200
        /\ {ItemKey(e) : e \in Range(r.successful_deliveries)} = AnsweredKeys(s, TRUE)
        /\ {ItemKey(e) : e \in Range(r.failed_deliveries)} = AnsweredKeys(s, FALSE)
        /\ r.sent_count = Cardinality(AnsweredKeys(s, TRUE))
        /\ r.failed_count = Cardinality(AnsweredKeys(s, FALSE))
        /\ r.total_subscriptions = Len(sender[s].subscriptions)

\* A dispatch has returned although the timestamp write for a delivered
\* target and the failure_count write for a failed target both failed.
C19_Witness ==
    \E s \in DOMAIN sender :
        /\ Dispatched(s)
        /\ \E k \in 1..Len(sender[s].successful) : \E it \in subscriptions :
              /\ ItemKey(it) = ItemKey(sender[s].successful[k])
              /\ it.last_notification_sent = Null
        /\ \E j \in 1..Len(sender[s].failed) : \E it \in subscriptions :
              /\ ItemKey(it) = ItemKey(sender[s].failed[j])
              /\ it.failure_count = Resolved(s, sender[s].failed[j]).failure_count

\* The send of a request that carries a device token has been made.
DirectSend ==
    /\ svc.route = "send"
    /\ svc.request.device_token # ""
    /\ Len(svc.results) = 1

\* C20: in a send to a device token, once createPlatformEndpoint has given an
\* endpoint ARN, the requests made are one Publish to that ARN followed by one
\* DeleteEndpoint of that ARN, whether the Publish succeeded or not; the
\* result is that of the Publish whatever the DeleteEndpoint did, and the
\* request is answered 200.  Without an ARN nothing is published or deleted.
C20_EphemeralEndpoint ==
    DirectSend =>
        /\ Len(svc.calls) >= 1
        /\ svc.calls[1].op = "CreatePlatformEndpoint"
        /\ IF svc.calls[1].ok
           THEN /\ Len(svc.calls) = 3
                /\ svc.calls[2].op = "Publish"
                /\ svc.calls[2].arn = svc.calls[1].arn
                /\ svc.calls[3].op = "DeleteEndpoint"
                /\ svc.calls[3].arn = svc.calls[1].arn
                /\ svc.results[1].success = svc.calls[2].ok
           ELSE /\ Len(svc.calls) = 1
                /\ ~svc.results[1].success
        /\ svc.pc = "done" =>
              /\ svc.response.statusCode = 200
              /\ svc.response.successful = (IF svc.results[1].success THEN 1 ELSE 0)
              /\ svc.response.failed = (IF svc.results[1].success THEN 0 ELSE 1)

\* A send to a device token has returned after a failed Publish and a failed
\* DeleteEndpoint.
C20_Witness ==
    /\ DirectSend
    /\ svc.pc = "done"
    /\ Len(svc.calls) = 3
    /\ ~svc.calls[2].ok
    /\ ~svc.calls[3].ok
    /\ svc.response.failed = 1

\* A step of a send whose request carries a device token: the table is left
\* as it is, and the targets are the one entry made from the token, whatever
\* the table holds and whether or not the store answers.
RawTokenStep ==
    (svc' # svc /\ svc'.route = "send" /\ svc'.request.device_token # "") =>
        /\ deviceTokens' = deviceTokens
        /\ svc'.response.statusCode \notin {400, 404}
        /\ svc'.deviceTokens =
              << [device_id |-> DirectToken, user_id |-> "direct",
                  device_token |-> svc'.request.device_token, endpoint_arn |-> NoArn,
                  active |-> TRUE] >>

\* C21: a send whose request carries a device token reads nothing from and
\* writes nothing to device_tokens, whatever the outcome of the send and
\* whether or not the request also carries user_id or device_id.
C21_RawTokenBypassesRegistry == [][RawTokenStep]_vars

\* A send to a token has returned for a request that also named a registered
\* device.
C21_Witness ==
    /\ DirectSend
    /\ svc.pc = "done"
    /\ svc.request.device_id # ""
    /\ \E it \in deviceTokens : it.device_id = svc.request.device_id

\* The step that resolves the targets of a web push dispatch takes the
\* stored subscriptions that are active, of the owner the request names or
\* of every owner, and no other.
ResolutionStep ==
    \A s \in DOMAIN sender :
        (sender[s].pc = "idle" /\ sender'[s].pc # "idle"
           /\ sender'[s].response.statusCode \notin {400, 500}) =>
              LET u == sender'[s].body.user_id IN
              /\ Range(sender'[s].subscriptions)
                    = {it \in subscriptions :
                          it.status = "active" /\ (u = NoUser \/ it.user_id = u)}
              /\ Len(sender'[s].subscriptions) = Cardinality(Range(sender'[s].subscriptions))

\* C22: the targets of a web push dispatch are exactly the stored
\* subscriptions that are active when the targets are resolved, of owner u
\* when the request names u: none inactive, none of another owner, and
\* none of the selected ones left out; only targets are sent the payload.
C22_ExactlyActiveTargets ==
    /\ [][ResolutionStep]_vars
    /\ [](\A s \in DOMAIN sender :
            Len(sender[s].answers) = Len(sender[s].subscriptions))

\* C23: when every send, every retrieval of the VAPID parameters and every
\* store call returns, a dispatch that is sending returns its response (web
\* push sender and NotificationService.sendNotifications).
C23_DispatchReturns ==
    /\ \A s \in Senders : (sender[s].pc = "sending") ~> (sender[s].pc = "done")
    /\ (svc.pc = "sending") ~> (svc.pc = "done")

\* A dispatch to two devices has returned after both sends failed.
C23_Witness ==
    /\ DeviceDispatched
    /\ svc.response.total_devices = 2
    /\ svc.response.failed = 2

\* C24: a tracker write never brings a key into the store: every step other
\* than a registration leaves the keys of the store within those it found.
\* So once a deregistration of owner u has answered 200 and no dispatch is
\* sending, the store holds no record of u (a registration starts only after
\* the deregistration has returned).
TrackerKeepsKeysStep == (sub' = sub) => KeysOf(subscriptions') \subseteq KeysOf(subscriptions)

C24_TrackerWritesPresentOnly ==
    /\ [][TrackerKeepsKeysStep]_vars
    /\ [](( /\ unsub.pc = "done"
            /\ unsub.response.statusCode = 200
            /\ \A s \in DOMAIN sender : sender[s].pc # "sending" )
          => RecordsOf(unsub.user_id) = {})

\* The failed entries for the key, over all dispatches, whose failure_count
\* write has been made
CountedFailures(key) ==
    {p \in (DOMAIN sender) \X (1..MaxItems) :
        /\ p[2] <= Len(sender[p[1]].failed)
        /\ ItemKey(sender[p[1]].failed[p[2]]) = key
        /\ sender[p[1]].fstate[p[2]] \in {"counted", "done"}}

\* C25: with concurrent dispatches and every tracker write succeeding, the
\* failure_count of a record registered with 0 equals the number of failed
\* delivery attempts to it whose write has been made, in every interleaving;
\* when all dispatches have returned it is the number k of failed attempts.
C25_NoLostFailureCount ==
    \A it \in subscriptions :
        it.failure_count = Cardinality(CountedFailures(ItemKey(it)))

\* Two dispatches that ran at the same time each failed to deliver to the same
\* subscription, and both have returned.
C25_Witness ==
    /\ \A s \in DOMAIN sender : sender[s].pc = "done"
    /\ \E it \in subscriptions :
          /\ it.failure_count = 2
          /\ \A s \in DOMAIN sender : \E j \in 1..Len(sender[s].failed) :
                ItemKey(sender[s].failed[j]) = ItemKey(it)

\* C26: a registration on behalf of one owner leaves every record stored for
\* a different owner present and unchanged.
RegisterForOwnerStep ==
    (svc.pc = "idle" /\ svc'.pc = "done" /\ svc'.route = "register")
    => LET owner == IF svc'.request.user_id # "" THEN svc'.request.user_id ELSE "anonymous"
       IN \A it \in deviceTokens : it.user_id # owner => it \in deviceTokens'

C26_OtherOwnersUntouched == [][RegisterForOwnerStep]_vars

\* C27: a registration of an owner with one endpoint URL leaves the owner's
\* records for every other endpoint URL in the store: different endpoints
\* get different subscription ids, so neither record overwrites the other.
DistinctEndpointStep ==
    (sub.pc = "idle" /\ sub'.pc = "done" /\ sub'.response.statusCode = 200)
    => \A it \in subscriptions :
          ( /\ it.user_id = sub'.body.user_id
            /\ it.subscription.endpoint # sub'.body.subscription.endpoint )
          => it \in subscriptions'

C27_DistinctEndpointsDistinctRecords == [][DistinctEndpointStep]_vars

\* The step is a registration of the record's owner and endpoint answered 200.
RegistrationOf(it) ==
    /\ sub.pc = "idle"
    /\ sub'.pc = "done"
    /\ sub'.response.statusCode = 200
    /\ sub'.body.user_id = it.user_id
    /\ sub'.body.subscription.endpoint = it.subscription.endpoint

\* C28: a step after which a stored record is active that was not, or has a
\* lower failure_count than it had, is a registration of the record's owner
\* and endpoint, and leaves the record with status active and failure_count
\* 0; so no dispatch step and no tracker step reactivates a record or lowers
\* its failure_count.
ReactivationStep ==
    \A it \in subscriptions, nw \in subscriptions' :
        ( /\ ItemKey(nw) = ItemKey(it)
          /\ \/ it.status # "active" /\ nw.status = "active"
             \/ nw.failure_count < it.failure_count )
        => /\ RegistrationOf(it)
           /\ nw.status = "active"
           /\ nw.failure_count = 0

RegisterDeviceStep ==
    (svc.pc = "idle" /\ svc'.pc = "done" /\ svc'.route = "register")
    => IF svc'.response.statusCode = 200
       THEN \E it \in deviceTokens' :
               /\ it.device_id = svc'.response.device_id
               /\ it.active
               /\ it.endpoint_arn = svc'.response.endpoint_arn
       ELSE /\ deviceTokens' = deviceTokens
            /\ endpoints' \subseteq endpoints

C29_RegisterDeviceAllOrNothing == [][RegisterDeviceStep]_vars

\* The endpoint the ARN names exists in the platform application.
EndpointExists(table, arn) ==
    arn.kind = "endpoint" /\ \E e \in table : e.token = arn.id

\* C30: the step that makes a raw-token send publishes to and deletes only
\* the endpoint that SNS created for this send (an endpoint ARN that did not
\* exist before the step), and every endpoint that a stored record references
\* and that existed before the step exists after it.
RawTokenSendStep ==
    (svc.pc = "sending" /\ svc.request.device_token # "" /\ Len(svc'.results) = 1)
    => /\ \A k \in 1..Len(svc'.calls) :
             svc'.calls[k].op \in {"Publish", "DeleteEndpoint"}
             => /\ svc'.calls[k].arn.kind = "endpoint"
                /\ ~EndpointExists(endpoints, svc'.calls[k].arn)
       /\ \A it \in deviceTokens :
             EndpointExists(endpoints, it.endpoint_arn)
             => EndpointExists(endpoints', it.endpoint_arn)

C30_OnlyOwnEphemeralHandle == [][RawTokenSendStep]_vars

====
